---- MODULE Spec2Model ----
(***************************************************************************)
(* A model of the two generation passes of zmanim-rust's helper scripts:   *)
(*                                                                         *)
(*   a.py       the method classifier: reads the AST dump of a Java class, *)
(*              sorts the names of its public, non-deprecated methods into *)
(*              three buckets and prints an enum skeleton;                 *)
(*   schema.py  the declaration emitter: `constants` renders the constant  *)
(*              table into Rust static declarations and writes the file.   *)
(*                                                                         *)
(* A JSON mapping's optional key is modelled as a sequence of length 0     *)
(* (key absent) or 1 (key present, holding the value).  A leaf string the  *)
(* code reads with .get(key, "") is modelled by the string itself, "" when *)
(* the key is absent: the code cannot tell the two apart.  Python strings  *)
(* are TLA+ strings; str.startswith, slicing and concatenation are         *)
(* computed on them with Len, SubSeq and \o.                               *)
(***************************************************************************)
EXTENDS Integers, Sequences, FiniteSets, TLC

VARIABLES
    prog,                 \* which script / command this run executes
    pc,                   \* position of the run
    data,                 \* a.py: the parsed a.json
    idx,                  \* 1-based position of the running for loop
    zmanim_methods,       \* a.py: a set, and after line 51 a sorted list
    zmanim_calc_methods,  \* a.py: a set, and after line 50 a sorted list
    other_methods,        \* a.py: a set, and after line 52 a sorted list
    stdout,               \* the lines printed so far
    table,                \* schema.py: the table(s) the command reads
    buffer,               \* schema.py: the text built so far
    output_file           \* schema.py: the output file on disk

vars == <<prog, pc, data, idx, zmanim_methods, zmanim_calc_methods,
          other_methods, stdout, table, buffer, output_file>>

(***************************************************************************)
(* Bounds of the model.                                                    *)
(***************************************************************************)
\* the longest list of member declarations of the first type
MaxDecls == 2
\* the longest constant table
MaxConsts == 2
\* the longest transliterated table of the model
MaxMembers == 2
\* the longest ENUMS table of the model
MaxEnums == 2

(***************************************************************************)
(* Optional keys.                                                          *)
(***************************************************************************)
None == <<>>

Some(v) == <<v>>

\* dict.get(key, default)
Get(opt, default) == IF opt = None THEN default ELSE opt[1]

SeqsUpTo(S, n) == UNION {[1..k -> S] : k \in 0..n}

(***************************************************************************)
(* Python string operations.                                               *)
(***************************************************************************)
\* str.startswith(prefix)
StartsWith(s, prefix) ==
    /\ Len(s) >= Len(prefix)
    /\ SubSeq(s, 1, Len(prefix)) = prefix

\* the code point of a one-character string (the characters of the model's names)
CharCode(c) ==
    CASE c = "A" -> 65
      [] c = "B" -> 66
      [] c = "e" -> 101
      [] c = "g" -> 103
      [] c = "s" -> 115
      [] c = "t" -> 116

RECURSIVE StrLessFrom(_, _, _)
\* a < b for Python strings that agree before position k
StrLessFrom(a, b, k) ==
    IF k > Len(b) THEN FALSE
    ELSE IF k > Len(a) THEN TRUE
    ELSE LET ca == CharCode(SubSeq(a, k, k))
             cb == CharCode(SubSeq(b, k, k))
         IN IF ca < cb THEN TRUE
            ELSE IF ca > cb THEN FALSE
            ELSE StrLessFrom(a, b, k + 1)

\* a < b: lexicographic by code point, a proper prefix first
StrLess(a, b) == StrLessFrom(a, b, 1)

\* min() of a non-empty set of strings
StrMin(S) == CHOOSE m \in S : \A x \in S : x = m \/ StrLess(m, x)

RECURSIVE sorted(_)
\* sorted(set of str): the ascending list of the set's members
sorted(S) ==
    IF S = {} THEN <<>>
    ELSE LET m == StrMin(S) IN <<m>> \o sorted(S \ {m})

(***************************************************************************)
(* The AST dump read by a.py.                                              *)
(***************************************************************************)
\* a modifier node: {"node": ..., "keyword": ..., "typeName": {"identifier": ...}}
ModifierNode(node, keyword, typeName) ==
    [node |-> node, keyword |-> keyword, typeName |-> typeName]

PublicModifier == ModifierNode("Modifier", "public", "")

PrivateModifier == ModifierNode("Modifier", "private", "")

DeprecatedMarker == ModifierNode("MarkerAnnotation", "", "Deprecated")

OverrideMarker == ModifierNode("MarkerAnnotation", "", "Override")

\* a return type node: {"node": ..., "name": {"identifier": ...}}
TypeNode(node, identifier) == [node |-> node, name |-> identifier]

DateType == TypeNode("SimpleType", "Date")

\* a member declaration: every key optional
Declaration(node, name, modifiers, returnType2, parameters) ==
    [node |-> node, name |-> name, modifiers |-> modifiers,
     returnType2 |-> returnType2, parameters |-> parameters]

\* the identifiers of the model's declarations that do not start with "set"
PlainNames == {Some("getA"), Some("A"), Some("getB")}

\* modifier lists that leave a declaration public and not deprecated
QualifyingModifiers == {<<PublicModifier>>, <<OverrideMarker, PublicModifier>>}

\* modifier lists (or their absence) that disqualify a declaration
DisqualifyingModifiers ==
    {None, Some(<<>>), Some(<<PrivateModifier>>), Some(<<DeprecatedMarker>>),
     Some(<<PublicModifier, DeprecatedMarker>>),
     Some(<<DeprecatedMarker, PublicModifier>>)}

\* return types other than SimpleType Date, and the absent one
OtherReturnTypes ==
    {None, Some(TypeNode("SimpleType", "String")),
     Some(TypeNode("PrimitiveType", "")), Some(TypeNode("QualifiedType", "Date"))}

\* parameter lists, and the absent one
ParameterLists == {None, Some(<<>>), Some(<<"p">>)}

\* The member declarations of the model: each family varies the keys one
\* branch of the loop body reads, with the remaining keys those of a public
\* zero-argument Date getter.
Decls ==
    \* names starting with "set": without node tag, a void setter, a Date getter-like
    {Declaration(None, Some("setA"), Some(<<PublicModifier>>), Some(DateType), Some(<<>>)),
     Declaration(Some("MethodDeclaration"), Some("setA"), Some(<<PublicModifier>>),
                 Some(TypeNode("PrimitiveType", "")), Some(<<"p">>)),
     Declaration(Some("MethodDeclaration"), Some("setA"), Some(<<PublicModifier>>),
                 Some(DateType), Some(<<>>))}
    \cup
    \* no node tag, or a node that is no method
    {Declaration(n, name, Some(<<PublicModifier>>), Some(DateType), Some(<<>>)) :
        n \in {None, Some("FieldDeclaration")}, name \in PlainNames}
    \cup
    \* the modifiers
    {Declaration(Some("MethodDeclaration"), name, m, Some(DateType), Some(<<>>)) :
        name \in PlainNames,
        m \in DisqualifyingModifiers \cup {Some(q) : q \in QualifyingModifiers}}
    \cup
    \* the return type
    {Declaration(Some("MethodDeclaration"), name, Some(<<PublicModifier>>), r, Some(<<>>)) :
        name \in PlainNames, r \in OtherReturnTypes}
    \cup
    \* the parameters
    {Declaration(Some("MethodDeclaration"), name, Some(<<PublicModifier>>), Some(DateType), p) :
        name \in PlainNames, p \in ParameterLists}
    \cup
    \* deprecated, with another return type and arity
    {Declaration(Some("MethodDeclaration"), Some("getA"), Some(m),
                 Some(TypeNode("SimpleType", "String")), Some(<<"p">>)) :
        m \in {<<PublicModifier, DeprecatedMarker>>, <<DeprecatedMarker, PublicModifier>>}}
    \cup
    \* no name
    {Declaration(Some("MethodDeclaration"), None, Some(<<PublicModifier>>), r, p) :
        r \in {Some(DateType), Some(TypeNode("SimpleType", "String"))},
        p \in {None, Some(<<>>)}}

\* a type declaration: {"bodyDeclarations": [...]}
TypeDecl(bodyDeclarations) == [bodyDeclarations |-> bodyDeclarations]

\* the root: {"types": [...]}
Root(types) == [types |-> types]

\* the roots of the model: well-formed ones over every list of declarations,
\* a root without "types", one with an empty type list, one whose first type
\* has no "bodyDeclarations"
Roots ==
    {Root(Some(<<TypeDecl(Some(ds))>>)) : ds \in SeqsUpTo(Decls, MaxDecls)}
    \cup {Root(None), Root(Some(<<>>)), Root(Some(<<TypeDecl(None)>>))}

\* data["types"][0]["bodyDeclarations"] raises KeyError or IndexError
RootRaises(d) ==
    \/ d.types = None
    \/ Len(d.types[1]) = 0
    \/ d.types[1][1].bodyDeclarations = None

\* data["types"][0]["bodyDeclarations"]
BodyDeclarations(d) == d.types[1][1].bodyDeclarations[1]

(***************************************************************************)
(* The loop body of a.py, one declaration at a time.                       *)
(***************************************************************************)
\* the three buckets
Buckets(zm, calc, other) ==
    [zmanim_methods |-> zm, zmanim_calc_methods |-> calc, other_methods |-> other]

\* i.get("name", {}).get("identifier", "")
RawName(i) == Get(i.name, "")

\* StripGet with the prefix left in place
StripGetKept(name) == name

\* the name with a leading "get" cut off
StripGet(name) ==
    IF StartsWith(name, "get") THEN SubSeq(name, 4, Len(name)) ELSE name

RECURSIVE ScanModifiersStopAtPublic(_, _, _)
\* ScanModifiers leaving the loop as soon as it has seen the public modifier
ScanModifiersStopAtPublic(modifiers, k, is_public) ==
    IF k > Len(modifiers) \/ is_public
    THEN [is_public |-> is_public, is_deprecated |-> FALSE]
    ELSE LET modifier == modifiers[k]
             pub == modifier.node = "Modifier" /\ modifier.keyword = "public"
         IN IF modifier.node = "MarkerAnnotation" /\ modifier.typeName = "Deprecated"
            THEN [is_public |-> pub, is_deprecated |-> TRUE]
            ELSE ScanModifiersStopAtPublic(modifiers, k + 1, pub)

RECURSIVE ScanModifiers(_, _, _)
\* the loop over the modifiers from position k on: is_public and is_deprecated
\* when it ends or breaks
ScanModifiers(modifiers, k, is_public) ==
    IF k > Len(modifiers)
    THEN [is_public |-> is_public, is_deprecated |-> FALSE]
    ELSE LET modifier == modifiers[k]
             pub == is_public \/ (modifier.node = "Modifier" /\ modifier.keyword = "public")
         IN IF modifier.node = "MarkerAnnotation" /\ modifier.typeName = "Deprecated"
            THEN [is_public |-> pub, is_deprecated |-> TRUE]
            ELSE ScanModifiers(modifiers, k + 1, pub)

\* "if not is_public or is_deprecated: continue" does not continue
PassesModifiers(i) ==
    LET scan == ScanModifiers(Get(i.modifiers, <<>>), 1, FALSE)
    IN ~(~scan.is_public \/ scan.is_deprecated)

\* IsDate looking at the type's name alone
IsDateByName(i) == Get(i.returnType2, TypeNode("", "")).name = "Date"

\* the return type is SimpleType Date
IsDate(i) ==
    /\ Get(i.returnType2, TypeNode("", "")).node = "SimpleType"
    /\ Get(i.returnType2, TypeNode("", "")).name = "Date"

\* ParametersLen with an empty default
ParametersLenDefaultEmpty(i) == Len(Get(i.parameters, <<>>))

\* len(i.get("parameters", [1]))
ParametersLen(i) == Len(Get(i.parameters, <<1>>))

\* Route adding the name only when no bucket holds it yet
RouteFirstWins(i, name, b) ==
    IF name \in b.zmanim_methods \cup b.zmanim_calc_methods \cup b.other_methods
    THEN b
    ELSE IF IsDate(i)
    THEN IF ParametersLen(i) = 0
         THEN [b EXCEPT !.zmanim_calc_methods = @ \cup {name}]
         ELSE [b EXCEPT !.zmanim_methods = @ \cup {name}]
    ELSE [b EXCEPT !.other_methods = @ \cup {name}]

\* the bucket a declaration that reached line 38 is added to
Route(i, name, b) ==
    IF IsDate(i)
    THEN IF ParametersLen(i) = 0
         THEN [b EXCEPT !.zmanim_calc_methods = @ \cup {name}]
         ELSE [b EXCEPT !.zmanim_methods = @ \cup {name}]
    ELSE [b EXCEPT !.other_methods = @ \cup {name}]

\* Body reading i["node"] before it looks at the name
BodyNodeFirst(i, b) ==
    IF i.node = None
    THEN [raised |-> TRUE, buckets |-> b]
    ELSE IF StartsWith(RawName(i), "set")
    THEN [raised |-> FALSE, buckets |-> b]
    ELSE IF i.node[1] # "MethodDeclaration"
    THEN [raised |-> FALSE, buckets |-> b]
    ELSE IF ~PassesModifiers(i)
    THEN [raised |-> FALSE, buckets |-> b]
    ELSE IF i.returnType2 = None
    THEN [raised |-> FALSE, buckets |-> b]
    ELSE [raised |-> FALSE, buckets |-> Route(i, StripGet(RawName(i)), b)]

\* Body reading the node tag with i.get("node"), which never raises
BodyTolerantNode(i, b) ==
    IF StartsWith(RawName(i), "set")
    THEN [raised |-> FALSE, buckets |-> b]
    ELSE IF Get(i.node, "") # "MethodDeclaration"
    THEN [raised |-> FALSE, buckets |-> b]
    ELSE IF ~PassesModifiers(i)
    THEN [raised |-> FALSE, buckets |-> b]
    ELSE IF i.returnType2 = None
    THEN [raised |-> FALSE, buckets |-> b]
    ELSE [raised |-> FALSE, buckets |-> Route(i, StripGet(RawName(i)), b)]

\* One pass of the loop body over declaration i with buckets b:
\* raised is TRUE when i["node"] raises KeyError, else buckets are those after
\* the pass.
Body(i, b) ==
    IF StartsWith(RawName(i), "set")
    THEN [raised |-> FALSE, buckets |-> b]
    ELSE IF i.node = None
    THEN [raised |-> TRUE, buckets |-> b]
    ELSE IF i.node[1] # "MethodDeclaration"
    THEN [raised |-> FALSE, buckets |-> b]
    ELSE IF ~PassesModifiers(i)
    THEN [raised |-> FALSE, buckets |-> b]
    ELSE IF i.returnType2 = None
    THEN [raised |-> FALSE, buckets |-> b]
    ELSE [raised |-> FALSE, buckets |-> Route(i, StripGet(RawName(i)), b)]

RECURSIVE RunLoop(_, _, _)
\* lines 10-48: the whole loop over the declarations ds from position k on,
\* stopping at the first pass that raises
RunLoop(ds, k, b) ==
    IF k > Len(ds) THEN [raised |-> FALSE, buckets |-> b]
    ELSE LET r == Body(ds[k], b)
         IN IF r.raised THEN r ELSE RunLoop(ds, k + 1, r.buckets)

(***************************************************************************)
(* The run of a.py.                                                        *)
(***************************************************************************)
InitClassifier ==
    /\ prog = "a.py"
    /\ pc = "load"
    /\ data \in Roots
    /\ idx = 0
    /\ zmanim_methods = {}
    /\ zmanim_calc_methods = {}
    /\ other_methods = {}
    /\ stdout = <<>>
    /\ table = <<>>
    /\ buffer = ""
    /\ output_file = None

\* line 10: the loop's iterable is evaluated
EnterLoop ==
    /\ prog = "a.py" /\ pc = "load"
    /\ IF RootRaises(data)
       THEN pc' = "error" /\ idx' = idx
       ELSE pc' = "loop" /\ idx' = 1
    /\ UNCHANGED <<prog, data, zmanim_methods, zmanim_calc_methods, other_methods,
                   stdout, table, buffer, output_file>>

\* lines 10-48: one pass of the loop body
Classify ==
    /\ prog = "a.py" /\ pc = "loop"
    /\ idx <= Len(BodyDeclarations(data))
    /\ LET r == Body(BodyDeclarations(data)[idx],
                     Buckets(zmanim_methods, zmanim_calc_methods, other_methods))
       IN /\ zmanim_methods' = r.buckets.zmanim_methods
          /\ zmanim_calc_methods' = r.buckets.zmanim_calc_methods
          /\ other_methods' = r.buckets.other_methods
          /\ IF r.raised
             THEN pc' = "error" /\ idx' = idx
             ELSE pc' = "loop" /\ idx' = idx + 1
    /\ UNCHANGED <<prog, data, stdout, table, buffer, output_file>>

\* lines 50-52: the loop is over, the buckets become sorted lists
SortBuckets ==
    /\ prog = "a.py" /\ pc = "loop"
    /\ idx > Len(BodyDeclarations(data))
    /\ zmanim_calc_methods' = sorted(zmanim_calc_methods)
    /\ zmanim_methods' = sorted(zmanim_methods)
    /\ other_methods' = sorted(other_methods)
    /\ pc' = "print"
    /\ UNCHANGED <<prog, data, idx, stdout, table, buffer, output_file>>

\* the list whose entries lines 54-55 print
PrintedList == zmanim_methods

\* lines 53-56: the enum skeleton
PrintSkeleton ==
    /\ prog = "a.py" /\ pc = "print"
    /\ stdout' = <<"pub enum Calculations {">>
                 \o [k \in 1..Len(PrintedList) |-> "    " \o PrintedList[k] \o ","]
                 \o <<"}">>
    /\ pc' = "done"
    /\ UNCHANGED <<prog, data, idx, zmanim_methods, zmanim_calc_methods,
                   other_methods, table, buffer, output_file>>

(***************************************************************************)
(* schema.py: the constant table and the constants command.                *)
(***************************************************************************)
\* Constant(name=..., value=..., type=...)
Constant(name, value, type) == [name |-> name, value |-> value, type |-> type]

\* The records of the model's tables: names, value texts and types of the
\* shipped table (float, int, datetime), and two types it does not use.
ConstantRecords ==
    {Constant(name, value, type) :
        name \in {"EARTH_RADIUS", "HOUR_MILLIS"},
        value \in {"6356.9", "-1461369600000"},
        type \in {"float", "int", "datetime", "str", "bool"}}

\* the text the buffers of both commands start with
Header ==
    "\n    use chrono::{DateTime, Utc};\n    use num_enum::{IntoPrimitive, TryFromPrimitive};\n    "

\* type_to_rust with the two numeric annotations exchanged
type_to_rust_swapped(type) ==
    IF type = "float" THEN [raised |-> FALSE, value |-> "i64"]
    ELSE IF type = "int" THEN [raised |-> FALSE, value |-> "f64"]
    ELSE IF type = "datetime" THEN [raised |-> FALSE, value |-> "DateTime<Utc>"]
    ELSE [raised |-> TRUE, value |-> ""]

\* type_to_rust falling back to a unit annotation where it should raise
type_to_rust_fallback(type) ==
    IF type = "float" THEN [raised |-> FALSE, value |-> "f64"]
    ELSE IF type = "int" THEN [raised |-> FALSE, value |-> "i64"]
    ELSE IF type = "datetime" THEN [raised |-> FALSE, value |-> "DateTime<Utc>"]
    ELSE [raised |-> FALSE, value |-> "()"]

\* type_to_rust(type): raised is TRUE when it raises ValueError
type_to_rust(type) ==
    IF type = "float" THEN [raised |-> FALSE, value |-> "f64"]
    ELSE IF type = "int" THEN [raised |-> FALSE, value |-> "i64"]
    ELSE IF type = "datetime" THEN [raised |-> FALSE, value |-> "DateTime<Utc>"]
    ELSE [raised |-> TRUE, value |-> ""]

\* lines 498-501: the text one record adds to the buffer; raised is TRUE when
\* rendering it raises
RenderConstant(constant) ==
    IF constant.type = "datetime"
    THEN [raised |-> FALSE,
          value |-> "pub static _" \o constant.name
                    \o ": DateTime<Utc> = DateTime::from_timestamp_millis("
                    \o constant.value \o ").unwrap();\n"]
    ELSE LET t == type_to_rust(constant.type)
         IN [raised |-> t.raised,
             value |-> "pub static _" \o constant.name \o ": " \o t.value
                       \o " = " \o constant.value \o ";\n"]

\* the file before the run: missing, or left by an earlier run
InitConstants ==
    /\ prog = "constants"
    /\ pc = "start"
    /\ table \in SeqsUpTo(ConstantRecords, MaxConsts)
    /\ output_file \in {None, Some("old")}
    /\ buffer = ""
    /\ idx = 0
    /\ data = Root(None)
    /\ zmanim_methods = {}
    /\ zmanim_calc_methods = {}
    /\ other_methods = {}
    /\ stdout = <<>>

\* lines 493-496: the buffer starts with the header
BeginConstants ==
    /\ prog = "constants" /\ pc = "start"
    /\ buffer' = Header
    /\ idx' = 1
    /\ pc' = "render"
    /\ UNCHANGED <<prog, data, zmanim_methods, zmanim_calc_methods, other_methods,
                   stdout, table, output_file>>

\* lines 497-501: one pass of the loop over the table
AppendConstant ==
    /\ prog = "constants" /\ pc = "render"
    /\ idx <= Len(table)
    /\ LET r == RenderConstant(table[idx])
       IN IF r.raised
          THEN pc' = "error" /\ UNCHANGED <<buffer, idx>>
          ELSE pc' = "render" /\ buffer' = buffer \o r.value /\ idx' = idx + 1
    /\ UNCHANGED <<prog, data, zmanim_methods, zmanim_calc_methods, other_methods,
                   stdout, table, output_file>>

\* lines 502-503: open(output_file, "w") and f.write(buffer).  The open may
\* fail (the file is left as it was), the write may fail after the open has
\* truncated the file, or both succeed.
WriteConstants ==
    /\ prog = "constants" /\ pc = "render"
    /\ idx > Len(table)
    /\ \E outcome \in {"written", "open fails", "write fails"} :
        \/ /\ outcome = "written"
           /\ output_file' = Some(buffer)
           /\ pc' = "done"
        \/ /\ outcome = "open fails"
           /\ output_file' = output_file
           /\ pc' = "error"
        \/ /\ outcome = "write fails"
           /\ output_file' = Some("")
           /\ pc' = "error"
    /\ UNCHANGED <<prog, data, idx, zmanim_methods, zmanim_calc_methods,
                   other_methods, stdout, table, buffer>>

(***************************************************************************)
(* schema.py: text helpers of the enums command.                           *)
(***************************************************************************)
UpperLetters == "ABCDEFGHIJKLMNOPQRSTUVWXYZ"

LowerLetters == "abcdefghijklmnopqrstuvwxyz"

\* the characters of a string
Chars(s) == {SubSeq(s, k, k) : k \in 1..Len(s)}

\* the position of the one-character string c in a string that holds it
IndexIn(c, s) == CHOOSE k \in 1..Len(s) : SubSeq(s, k, k) = c

\* str.isupper() and str.islower() of one character
CharIsUpper(c) == c \in Chars(UpperLetters)

CharIsLower(c) == c \in Chars(LowerLetters)

\* str.upper() and str.lower() of one character
CharUpper(c) ==
    IF CharIsLower(c)
    THEN SubSeq(UpperLetters, IndexIn(c, LowerLetters), IndexIn(c, LowerLetters))
    ELSE c

CharLower(c) ==
    IF CharIsUpper(c)
    THEN SubSeq(LowerLetters, IndexIn(c, UpperLetters), IndexIn(c, UpperLetters))
    ELSE c

RECURSIVE MapChars(_, _)
\* the string with Op applied to each of its characters
MapChars(Op(_), s) ==
    IF s = "" THEN "" ELSE Op(SubSeq(s, 1, 1)) \o MapChars(Op, SubSeq(s, 2, Len(s)))

\* the apostrophe is the punctuation of the labels; pascalcase drops it
StripPunctuation(c) == IF c = "'" THEN "" ELSE c

\* str.isupper(): some cased character, and none of them lower case
StrIsUpper(s) ==
    /\ \E c \in Chars(s) : CharIsUpper(c)
    /\ \A c \in Chars(s) : ~CharIsLower(c)

RECURSIVE PascalFrom(_, _, _, _)
\* pascalcase from position k on: prev is the character before, upper_next is
\* set after a delimiter
PascalFrom(s, k, prev, upper_next) ==
    IF k > Len(s) THEN ""
    ELSE LET c == SubSeq(s, k, k)
         IN IF c \in {" ", "-", "_"}
            THEN PascalFrom(s, k + 1, c, TRUE)
            ELSE IF upper_next
            THEN CharUpper(c) \o PascalFrom(s, k + 1, c, FALSE)
            ELSE IF CharIsUpper(c) /\ CharIsLower(prev)
            THEN c \o PascalFrom(s, k + 1, c, FALSE)
            ELSE CharLower(c) \o PascalFrom(s, k + 1, c, FALSE)

\* caseconverter.pascalcase(s): punctuation dropped, an all-capitals text
\* lowered first, each word's first letter raised, the delimiters removed
pascalcase(s) ==
    LET stripped == MapChars(StripPunctuation, s)
        prepared == IF StrIsUpper(stripped) THEN MapChars(CharLower, stripped)
                    ELSE stripped
    IN PascalFrom(prepared, 1, " ", TRUE)

\* str(int) keeping the last digit only
IntToStrLastDigit(n) == SubSeq("0123456789", (n % 10) + 1, (n % 10) + 1)

RECURSIVE IntToStr(_)
\* str(int), as an f-string formats member.value
IntToStr(n) ==
    IF n < 0 THEN "-" \o IntToStr(-n)
    ELSE IF n < 10 THEN SubSeq("0123456789", n + 1, n + 1)
    ELSE IntToStr(n \div 10) \o SubSeq("0123456789", (n % 10) + 1, (n % 10) + 1)

(***************************************************************************)
(* schema.py: the enum records and their rendering.                        *)
(***************************************************************************)
\* EnumMember(name=..., value=...)
EnumMember(name, value) == [name |-> name, value |-> value]

\* Enum(name=..., members=[...])
Enum(name, members) == [name |-> name, members |-> members]

\* TransliteratedEnumMember(name=..., transliterated_name=..., value=...)
TransliteratedEnumMember(name, transliterated_name, value) ==
    [name |-> name, transliterated_name |-> transliterated_name, value |-> value]

\* lines 477-478 and 514-515: the attributes every enum starts with
DeriveLines ==
    "#[derive(Debug, PartialEq, Eq, Clone, Copy, IntoPrimitive, TryFromPrimitive)]\n"
    \o "#[repr(i64)]\n"

RECURSIVE Concat(_, _)
\* the texts Line(x) of the members x of a list, joined in list order
Concat(Line(_), xs) ==
    IF xs = <<>> THEN ""
    ELSE IF Len(xs) = 1 THEN Line(xs[1])
    ELSE Concat(Line, SubSeq(xs, 1, Len(xs) \div 2))
         \o Concat(Line, SubSeq(xs, (Len(xs) \div 2) + 1, Len(xs)))

\* lines 518-519: the variant a plain member adds
PlainVariant(member) ==
    "    " \o pascalcase(member.name) \o " = " \o IntToStr(member.value) \o ",\n"

\* lines 514-520: the text one plain enum adds to the buffer
RenderEnum(enum) ==
    DeriveLines
    \o "pub enum _" \o pascalcase(enum.name) \o " {\n"
    \o Concat(PlainVariant, enum.members)
    \o "}\n"

\* the variant of a transliterated member with its value halved
TransliteratedVariantHalved(enum) ==
    "    " \o pascalcase(enum.transliterated_name) \o " = " \o IntToStr(enum.value \div 2) \o ",\n"

\* lines 482-483: the variant a transliterated member adds
TransliteratedVariant(enum) ==
    "    " \o pascalcase(enum.transliterated_name) \o " = " \o IntToStr(enum.value) \o ",\n"

\* lines 469-470: the en_string arm of a member
EnArm(name, member) ==
    "    " \o name \o "::" \o pascalcase(member.transliterated_name)
    \o " => \"" \o member.transliterated_name \o "\",\n"

\* lines 473-474: the he_string arm of a member
HeArm(name, member) ==
    "    " \o name \o "::" \o pascalcase(member.transliterated_name)
    \o " => \"" \o member.name \o "\",\n"

\* transliterated_enums_to_rust(name, enums)
transliterated_enums_to_rust(name, enums) ==
    LET en_arm(member) == EnArm(name, member)
        he_arm(member) == HeArm(name, member)
        impl_buffer ==
            "impl " \o name \o " {\n"
            \o "pub fn en_string(&self) -> &str { match self {"
            \o Concat(en_arm, enums)
            \o "}}\n"
            \o "pub fn he_string(&self) -> &str { match self {"
            \o Concat(he_arm, enums)
            \o "}}\n"
            \o "}\n"
        buffer0 ==
            DeriveLines
            \o "pub enum " \o name \o " {\n"
            \o Concat(TransliteratedVariant, enums)
            \o "}\n"
    IN buffer0 \o impl_buffer

(***************************************************************************)
(* schema.py: the shipped tables of the enums command.                     *)
(***************************************************************************)
\* PARSHAS, lines 33-126
PARSHAS ==
    <<TransliteratedEnumMember("בראשית", "Bereshis", 0),
      TransliteratedEnumMember("נח", "Noach", 1),
      TransliteratedEnumMember("לך לך", "Lech Lecha", 2),
      TransliteratedEnumMember("וירא", "Vayera", 3),
      TransliteratedEnumMember("חיי שרה", "Chayei Sara", 4),
      TransliteratedEnumMember("תולדות", "Toldos", 5),
      TransliteratedEnumMember("ויצא", "Vayetzei", 6),
      TransliteratedEnumMember("וישלח", "Vayishlach", 7),
      TransliteratedEnumMember("וישב", "Vayeshev", 8),
      TransliteratedEnumMember("מקץ", "Miketz", 9),
      TransliteratedEnumMember("ויגש", "Vayigash", 10),
      TransliteratedEnumMember("ויחי", "Vayechi", 11),
      TransliteratedEnumMember("שמות", "Shemos", 12),
      TransliteratedEnumMember("וארא", "Vaera", 13),
      TransliteratedEnumMember("בא", "Bo", 14),
      TransliteratedEnumMember("בשלח", "Beshalach", 15),
      TransliteratedEnumMember("יתרו", "Yisro", 16),
      TransliteratedEnumMember("משפטים", "Mishpatim", 17),
      TransliteratedEnumMember("תרומה", "Terumah", 18),
      TransliteratedEnumMember("תצוה", "Tetzaveh", 19),
      TransliteratedEnumMember("כי תשא", "Ki Sisa", 20),
      TransliteratedEnumMember("ויקהל", "Vayakhel", 21),
      TransliteratedEnumMember("פקודי", "Pekudei", 22),
      TransliteratedEnumMember("ויקרא", "Vayikra", 23),
      TransliteratedEnumMember("צו", "Tzav", 24),
      TransliteratedEnumMember("שמיני", "Shmini", 25),
      TransliteratedEnumMember("תזריע", "Tazria", 26),
      TransliteratedEnumMember("מצרע", "Metzora", 27),
      TransliteratedEnumMember("אחרי מות", "Achrei Mos", 28),
      TransliteratedEnumMember("קדושים", "Kedoshim", 29),
      TransliteratedEnumMember("אמור", "Emor", 30),
      TransliteratedEnumMember("בהר", "Behar", 31),
      TransliteratedEnumMember("בחקתי", "Bechukosai", 32),
      TransliteratedEnumMember("במדבר", "Bamidbar", 33),
      TransliteratedEnumMember("נשא", "Nasso", 34),
      TransliteratedEnumMember("בהעלתך", "Beha'aloscha", 35),
      TransliteratedEnumMember("שלח לך", "Sh'lach", 36),
      TransliteratedEnumMember("קרח", "Korach", 37),
      TransliteratedEnumMember("חוקת", "Chukas", 38),
      TransliteratedEnumMember("בלק", "Balak", 39),
      TransliteratedEnumMember("פינחס", "Pinchas", 40),
      TransliteratedEnumMember("מטות", "Matos", 41),
      TransliteratedEnumMember("מסעי", "Masei", 42),
      TransliteratedEnumMember("דברים", "Devarim", 43),
      TransliteratedEnumMember("ואתחנן", "Vaeschanan", 44),
      TransliteratedEnumMember("עקב", "Eikev", 45),
      TransliteratedEnumMember("ראה", "Re'eh", 46),
      TransliteratedEnumMember("שופטים", "Shoftim", 47),
      TransliteratedEnumMember("כי תצא", "Ki Seitzei", 48),
      TransliteratedEnumMember("כי תבוא", "Ki Savo", 49),
      TransliteratedEnumMember("נצבים", "Nitzavim", 50),
      TransliteratedEnumMember("וילך", "Vayeilech", 51),
      TransliteratedEnumMember("האזינו", "Ha'Azinu", 52),
      TransliteratedEnumMember("וזאת הברכה ", "Vezos Habracha", 53),
      TransliteratedEnumMember("ויקהל פקודי", "Vayakhel Pekudei", 54),
      TransliteratedEnumMember("תזריע מצרע", "Tazria Metzora", 55),
      TransliteratedEnumMember("אחרי מות קדושים", "Achrei Mos Kedoshim", 56),
      TransliteratedEnumMember("בהר בחקתי", "Behar Bechukosai", 57),
      TransliteratedEnumMember("חוקת בלק", "Chukas Balak", 58),
      TransliteratedEnumMember("מטות מסעי", "Matos Masei", 59),
      TransliteratedEnumMember("נצבים וילך", "Nitzavim Vayeilech", 60),
      TransliteratedEnumMember("שקלים", "Shekalim", 61),
      TransliteratedEnumMember("זכור", "Zachor", 62),
      TransliteratedEnumMember("פרה", "Parah", 63),
      TransliteratedEnumMember("החדש", "Hachodesh", 64),
      TransliteratedEnumMember("שובה", "Shuva", 65),
      TransliteratedEnumMember("שירה", "Shira", 66),
      TransliteratedEnumMember("הגדול", "Hagadol", 67),
      TransliteratedEnumMember("חזון", "Chazon", 68),
      TransliteratedEnumMember("נחמו", "Nachamu", 69)>>

\* HEBREW_MONTHS, lines 129-143
HEBREW_MONTHS ==
    <<TransliteratedEnumMember("ניסן", "Nissan", 1),
      TransliteratedEnumMember("אייר", "Iyar", 2),
      TransliteratedEnumMember("סיון", "Sivan", 3),
      TransliteratedEnumMember("תמוז", "Tammuz", 4),
      TransliteratedEnumMember("אב", "Av", 5),
      TransliteratedEnumMember("אלול", "Elul", 6),
      TransliteratedEnumMember("תשרי", "Tishrei", 7),
      TransliteratedEnumMember("חשון", "Cheshvan", 8),
      TransliteratedEnumMember("כסלו", "Kislev", 9),
      TransliteratedEnumMember("טבת", "Teves", 10),
      TransliteratedEnumMember("שבט", "Shevat", 11),
      TransliteratedEnumMember("אדר", "Adar", 12),
      TransliteratedEnumMember("אדר ב", "Adar II", 13)>>

\* DAY_OF_WEEKS, lines 146-154
DAY_OF_WEEKS ==
    <<TransliteratedEnumMember("ראשון", "Sunday", 1),
      TransliteratedEnumMember("שני", "Monday", 2),
      TransliteratedEnumMember("שלישי", "Tuesday", 3),
      TransliteratedEnumMember("רביעי", "Wednesday", 4),
      TransliteratedEnumMember("חמישי", "Thursday", 5),
      TransliteratedEnumMember("שישי", "Friday", 6),
      TransliteratedEnumMember("שבת", "Shabbos", 7)>>

\* JEWISH_HOLIDAYS, lines 156-257
JEWISH_HOLIDAYS ==
    <<TransliteratedEnumMember("ערב פסח", "Erev Pesach", 0),
      TransliteratedEnumMember("פסח", "Pesach", 1),
      TransliteratedEnumMember("חול המועד פסח", "Chol Hamoed Pesach", 2),
      TransliteratedEnumMember("פסח שני", "Pesach Sheni", 3),
      TransliteratedEnumMember("ערב שבועות", "Erev Shavuos", 4),
      TransliteratedEnumMember("שבועות", "Shavuos", 5),
      TransliteratedEnumMember("שבעה עשר בתמוז", "Seventeenth of Tammuz", 6),
      TransliteratedEnumMember("תשעה באב", "Tishah B'Av", 7),
      TransliteratedEnumMember("ט״ו באב", "Tu B'Av", 8),
      TransliteratedEnumMember("ערב ראש השנה", "Erev Rosh Hashana", 9),
      TransliteratedEnumMember("ראש השנה", "Rosh Hashana", 10),
      TransliteratedEnumMember("צום גדליה", "Fast of Gedalyah", 11),
      TransliteratedEnumMember("ערב יום כיפור", "Erev Yom Kippur", 12),
      TransliteratedEnumMember("יום כיפור", "Yom Kippur", 13),
      TransliteratedEnumMember("ערב סוכות", "Erev Succos", 14),
      TransliteratedEnumMember("סוכות", "Succos", 15),
      TransliteratedEnumMember("חול המועד סוכות", "Chol Hamoed Succos", 16),
      TransliteratedEnumMember("הושענא רבה", "Hoshana Rabbah", 17),
      TransliteratedEnumMember("שמיני עצרת", "Shemini Atzeres", 18),
      TransliteratedEnumMember("שמחת תורה", "Simchas Torah", 19),
      TransliteratedEnumMember("ערב חנוכה", "Erev Chanukah", 20),
      TransliteratedEnumMember("חנוכה", "Chanukah", 21),
      TransliteratedEnumMember("עשרה בטבת", "Tenth of Teves", 22),
      TransliteratedEnumMember("ט״ו בשבט", "Tu B'Shvat", 23),
      TransliteratedEnumMember("תענית אסתר", "Fast of Esther", 24),
      TransliteratedEnumMember("פורים", "Purim", 25),
      TransliteratedEnumMember("שושן פורים", "Shushan Purim", 26),
      TransliteratedEnumMember("פורים קטן", "Purim Katan", 27),
      TransliteratedEnumMember("ראש חודש", "Rosh Chodesh", 28),
      TransliteratedEnumMember("יום השואה", "Yom HaShoah", 29),
      TransliteratedEnumMember("יום הזיכרון", "Yom Hazikaron", 30),
      TransliteratedEnumMember("יום העצמאות", "Yom Ha'atzmaut", 31),
      TransliteratedEnumMember("יום ירושלים", "Yom Yerushalayim", 32),
      TransliteratedEnumMember("ל״ג בעומר", "Lag B'Omer", 33),
      TransliteratedEnumMember("שושן פורים קטן", "Shushan Purim Katan", 34),
      TransliteratedEnumMember("אסרו חג", "Isru Chag", 35),
      TransliteratedEnumMember("יום העצמאות", "Yom Kippur Katan", 36),
      TransliteratedEnumMember("יום כיפור קטן", "Behab", 37)>>

\* YEAR_LENGTH_TYPES, lines 260-264
YEAR_LENGTH_TYPES ==
    <<TransliteratedEnumMember("חסרים", "Chaserim", 0),
      TransliteratedEnumMember("כסדרן", "Kesidran", 1),
      TransliteratedEnumMember("שלמים", "Shelaimim", 2)>>

\* BAVLI_TRACTATES, lines 266-319
BAVLI_TRACTATES ==
    <<TransliteratedEnumMember("ברכות", "Berachos", 0),
      TransliteratedEnumMember("שבת", "Shabbos", 1),
      TransliteratedEnumMember("עירובין", "Eruvin", 2),
      TransliteratedEnumMember("פסחים", "Pesachim", 3),
      TransliteratedEnumMember("שקלים", "Shekalim", 4),
      TransliteratedEnumMember("יומא", "Yoma", 5),
      TransliteratedEnumMember("סוכה", "Sukkah", 6),
      TransliteratedEnumMember("ביצה", "Beitzah", 7),
      TransliteratedEnumMember("ראש השנה", "Rosh Hashana", 8),
      TransliteratedEnumMember("תענית", "Taanis", 9),
      TransliteratedEnumMember("מגילה", "Megillah", 10),
      TransliteratedEnumMember("מועד קטן", "Moed Katan", 11),
      TransliteratedEnumMember("חגיגה", "Chagigah", 12),
      TransliteratedEnumMember("יבמות", "Yevamos", 13),
      TransliteratedEnumMember("כתובות", "Kesubos", 14),
      TransliteratedEnumMember("נדרים", "Nedarim", 15),
      TransliteratedEnumMember("נזיר", "Nazir", 16),
      TransliteratedEnumMember("סוטה", "Sotah", 17),
      TransliteratedEnumMember("גיטין", "Gitin", 18),
      TransliteratedEnumMember("קידושין", "Kiddushin", 19),
      TransliteratedEnumMember("בבא קמא", "Bava Kamma", 20),
      TransliteratedEnumMember("בבא מציעא", "Bava Metzia", 21),
      TransliteratedEnumMember("בבא בתרא", "Bava Basra", 22),
      TransliteratedEnumMember("סנהדרין", "Sanhedrin", 23),
      TransliteratedEnumMember("מכות", "Makkos", 24),
      TransliteratedEnumMember("שבועות", "Shevuos", 25),
      TransliteratedEnumMember("עבודה זרה", "Avodah Zarah", 26),
      TransliteratedEnumMember("הוריות", "Horiyos", 27),
      TransliteratedEnumMember("זבחים", "Zevachim", 28),
      TransliteratedEnumMember("מנחות", "Menachos", 29),
      TransliteratedEnumMember("חולין", "Chullin", 30),
      TransliteratedEnumMember("בכורות", "Bechoros", 31),
      TransliteratedEnumMember("ערכין", "Arachin", 32),
      TransliteratedEnumMember("תמורה", "Temurah", 33),
      TransliteratedEnumMember("כריתות", "Kerisos", 34),
      TransliteratedEnumMember("מעילה", "Meilah", 35),
      TransliteratedEnumMember("קינים", "Kinnim", 36),
      TransliteratedEnumMember("תמיד", "Tamid", 37),
      TransliteratedEnumMember("מידות", "Midos", 38),
      TransliteratedEnumMember("נדה", "Niddah", 39)>>

\* YERUSHALMI_TRACTATES, lines 322-374
YERUSHALMI_TRACTATES ==
    <<TransliteratedEnumMember("ברכות", "Berachos", 0),
      TransliteratedEnumMember("פיאה", "Pe'ah", 1),
      TransliteratedEnumMember("דמאי", "Demai", 2),
      TransliteratedEnumMember("כלאים", "Kilayim", 3),
      TransliteratedEnumMember("שביעית", "Shevi'is", 4),
      TransliteratedEnumMember("תרומות", "Terumos", 5),
      TransliteratedEnumMember("מעשרות", "Ma'asros", 6),
      TransliteratedEnumMember("מעשר שני", "Ma'aser Sheni", 7),
      TransliteratedEnumMember("חלה", "Chalah", 8),
      TransliteratedEnumMember("עורלה", "Orlah", 9),
      TransliteratedEnumMember("ביכורים", "Bikurim", 10),
      TransliteratedEnumMember("שבת", "Shabbos", 11),
      TransliteratedEnumMember("עירובין", "Eruvin", 12),
      TransliteratedEnumMember("פסחים", "Pesachim", 13),
      TransliteratedEnumMember("ביצה", "Beitzah", 14),
      TransliteratedEnumMember("ראש השנה", "Rosh Hashanah", 15),
      TransliteratedEnumMember("יומא", "Yoma", 16),
      TransliteratedEnumMember("סוכה", "Sukah", 17),
      TransliteratedEnumMember("תענית", "Ta'anis", 18),
      TransliteratedEnumMember("שקלים", "Shekalim", 19),
      TransliteratedEnumMember("מגילה", "Megilah", 20),
      TransliteratedEnumMember("חגיגה", "Chagigah", 21),
      TransliteratedEnumMember("מועד קטן", "Moed Katan", 22),
      TransliteratedEnumMember("יבמות", "Yevamos", 23),
      TransliteratedEnumMember("כתובות", "Kesuvos", 24),
      TransliteratedEnumMember("סוטה", "Sotah", 25),
      TransliteratedEnumMember("נדרים", "Nedarim", 26),
      TransliteratedEnumMember("נזיר", "Nazir", 27),
      TransliteratedEnumMember("גיטין", "Gitin", 28),
      TransliteratedEnumMember("קידושין", "Kidushin", 29),
      TransliteratedEnumMember("בבא קמא", "Bava Kama", 30),
      TransliteratedEnumMember("בבא מציעא", "Bava Metzia", 31),
      TransliteratedEnumMember("בבא בתרא", "Bava Basra", 32),
      TransliteratedEnumMember("שבועות", "Shevuos", 33),
      TransliteratedEnumMember("מכות", "Makos", 34),
      TransliteratedEnumMember("סנהדרין", "Sanhedrin", 35),
      TransliteratedEnumMember("עבודה זרה", "Avodah Zarah", 36),
      TransliteratedEnumMember("הוריות", "Horayos", 37),
      TransliteratedEnumMember("נידה", "Nidah", 38)>>

\* ENUMS, lines 432-450
ENUMS ==
    <<Enum("SOLAR_EVENT",
         <<EnumMember("Sunrise", 0), EnumMember("Sunset", 1), EnumMember("Noon", 2), EnumMember("Midnight", 3)>>),
      Enum("FORMULA",
         <<EnumMember("Distance", 0), EnumMember("InitialBearing", 1), EnumMember("FinalBearing", 2)>>)>>

(***************************************************************************)
(* schema.py: the enums command.                                           *)
(***************************************************************************)
\* the tables the command reads
Tables(enums, parshas, holidays, days, months, years, bavli, yerushalmi) ==
    [ENUMS |-> enums, PARSHAS |-> parshas, JEWISH_HOLIDAYS |-> holidays,
     DAY_OF_WEEKS |-> days, HEBREW_MONTHS |-> months, YEAR_LENGTH_TYPES |-> years,
     BAVLI_TRACTATES |-> bavli, YERUSHALMI_TRACTATES |-> yerushalmi]

\* the tables as shipped
ShippedTables ==
    Tables(ENUMS, PARSHAS, JEWISH_HOLIDAYS, DAY_OF_WEEKS, HEBREW_MONTHS,
           YEAR_LENGTH_TYPES, BAVLI_TRACTATES, YERUSHALMI_TRACTATES)

\* the shipped tables, each cut to its first record
ShortTables ==
    Tables(SubSeq(ENUMS, 1, 1), SubSeq(PARSHAS, 1, 1), SubSeq(JEWISH_HOLIDAYS, 1, 1),
           SubSeq(DAY_OF_WEEKS, 1, 1), SubSeq(HEBREW_MONTHS, 1, 1),
           SubSeq(YEAR_LENGTH_TYPES, 1, 1), SubSeq(BAVLI_TRACTATES, 1, 1),
           SubSeq(YERUSHALMI_TRACTATES, 1, 1))

\* members of the model's transliterated tables: two shipped ones, and one
\* whose label gets the identifier of the first
ModelTransliteratedMembers ==
    {TransliteratedEnumMember("לך לך", "Lech Lecha", 2),
     TransliteratedEnumMember("בא", "Bo", 14),
     TransliteratedEnumMember("לך לך", "Lech-Lecha", 3)}

\* the transliterated tables of the model
ModelTransliteratedTables == SeqsUpTo(ModelTransliteratedMembers, MaxMembers)

\* the plain enums of the model: one whose name is cased and whose values
\* are neither contiguous nor ascending, one without members, one of the
\* shipped form
ModelEnums ==
    {Enum("SOLAR_EVENT", <<EnumMember("Bo", 14), EnumMember("InitialBearing", 1)>>),
     Enum("SOLAR_EVENT", <<>>),
     Enum("FORMULA", <<EnumMember("Distance", 0)>>)}

\* The inputs of the model's runs: the shipped tables, and the short tables
\* with one of them replaced by a table of the model.
EnumsInputs ==
    {ShippedTables, ShortTables}
    \cup {[ShortTables EXCEPT !.ENUMS = t] : t \in SeqsUpTo(ModelEnums, MaxEnums)}
    \cup {[ShortTables EXCEPT ![slot] = t] :
            slot \in {"PARSHAS", "JEWISH_HOLIDAYS", "DAY_OF_WEEKS", "HEBREW_MONTHS",
                      "YEAR_LENGTH_TYPES", "BAVLI_TRACTATES", "YERUSHALMI_TRACTATES"},
            t \in ModelTransliteratedTables}

\* the calls of transliterated_enums_to_rust sorted by the name passed
TransliteratedCallsSorted ==
    <<[name |-> "BavliTractate", enums |-> "BAVLI_TRACTATES"],
      [name |-> "DayOfWeek", enums |-> "DAY_OF_WEEKS"],
      [name |-> "JewishHoliday", enums |-> "JEWISH_HOLIDAYS"],
      [name |-> "JewishMonth", enums |-> "HEBREW_MONTHS"],
      [name |-> "Parsha", enums |-> "PARSHAS"],
      [name |-> "YearLengthType", enums |-> "YEAR_LENGTH_TYPES"],
      [name |-> "YerushalmiTractate", enums |-> "YERUSHALMI_TRACTATES"]>>

\* lines 521-527: the calls of transliterated_enums_to_rust, in order: the
\* name passed and the table passed
TransliteratedCalls ==
    <<[name |-> "Parsha", enums |-> "PARSHAS"],
      [name |-> "JewishHoliday", enums |-> "JEWISH_HOLIDAYS"],
      [name |-> "DayOfWeek", enums |-> "DAY_OF_WEEKS"],
      [name |-> "JewishMonth", enums |-> "HEBREW_MONTHS"],
      [name |-> "YearLengthType", enums |-> "YEAR_LENGTH_TYPES"],
      [name |-> "BavliTractate", enums |-> "BAVLI_TRACTATES"],
      [name |-> "YerushalmiTractate", enums |-> "YERUSHALMI_TRACTATES"]>>

\* lines 531-533: the warning printed
LeapYearWarning ==
    "You must manually make the he_string and en_string methods on JewishMonth factor in the leap year (Adar I during leap year or just plain Adar otherwise)"

InitEnums ==
    /\ prog = "enums"
    /\ pc = "start"
    /\ table \in EnumsInputs
    /\ output_file \in {None, Some("old")}
    /\ buffer = ""
    /\ idx = 0
    /\ data = Root(None)
    /\ zmanim_methods = {}
    /\ zmanim_calc_methods = {}
    /\ other_methods = {}
    /\ stdout = <<>>

\* lines 509-512: the buffer starts with the header
BeginEnums ==
    /\ prog = "enums" /\ pc = "start"
    /\ buffer' = Header
    /\ idx' = 1
    /\ pc' = "plain"
    /\ UNCHANGED <<prog, data, zmanim_methods, zmanim_calc_methods, other_methods,
                   stdout, table, output_file>>

\* lines 513-520: one pass of the loop over ENUMS; after the last one the
\* calls of lines 521-527 follow
AppendEnum ==
    /\ prog = "enums" /\ pc = "plain"
    /\ IF idx <= Len(table.ENUMS)
       THEN /\ buffer' = buffer \o RenderEnum(table.ENUMS[idx])
            /\ idx' = idx + 1
            /\ pc' = "plain"
       ELSE /\ buffer' = buffer
            /\ idx' = 1
            /\ pc' = "transliterated"
    /\ UNCHANGED <<prog, data, zmanim_methods, zmanim_calc_methods, other_methods,
                   stdout, table, output_file>>

\* lines 521-527: the next call of transliterated_enums_to_rust
AppendTransliterated ==
    /\ prog = "enums" /\ pc = "transliterated"
    /\ idx <= Len(TransliteratedCalls)
    /\ buffer' = buffer \o transliterated_enums_to_rust(
                              TransliteratedCalls[idx].name,
                              table[TransliteratedCalls[idx].enums])
    /\ idx' = idx + 1
    /\ UNCHANGED <<prog, pc, data, zmanim_methods, zmanim_calc_methods, other_methods,
                   stdout, table, output_file>>

\* lines 528-529: open(output_file, "w") and f.write(buffer), with the
\* outcomes of WriteConstants
WriteEnums ==
    /\ prog = "enums" /\ pc = "transliterated"
    /\ idx > Len(TransliteratedCalls)
    /\ \E outcome \in {"written", "open fails", "write fails"} :
        \/ /\ outcome = "written"
           /\ output_file' = Some(buffer)
           /\ pc' = "written"
        \/ /\ outcome = "open fails"
           /\ output_file' = output_file
           /\ pc' = "error"
        \/ /\ outcome = "write fails"
           /\ output_file' = Some("")
           /\ pc' = "error"
    /\ UNCHANGED <<prog, data, idx, zmanim_methods, zmanim_calc_methods,
                   other_methods, stdout, table, buffer>>

\* the warning printed whether the with block ended normally or not
PrintWarningAlways ==
    /\ prog = "enums" /\ pc \in {"written", "error"}
    /\ stdout = <<>>
    /\ stdout' = Append(stdout, LeapYearWarning)
    /\ pc' = IF pc = "written" THEN "done" ELSE "error"
    /\ UNCHANGED <<prog, data, idx, zmanim_methods, zmanim_calc_methods,
                   other_methods, table, buffer, output_file>>

\* lines 531-533: the warning, after the with block
PrintWarning ==
    /\ prog = "enums" /\ pc = "written"
    /\ stdout' = Append(stdout, LeapYearWarning)
    /\ pc' = "done"
    /\ UNCHANGED <<prog, data, idx, zmanim_methods, zmanim_calc_methods,
                   other_methods, table, buffer, output_file>>

Init == InitClassifier \/ InitConstants \/ InitEnums

Next ==
    \/ EnterLoop
    \/ Classify
    \/ SortBuckets
    \/ PrintSkeleton
    \/ BeginConstants
    \/ AppendConstant
    \/ WriteConstants
    \/ BeginEnums
    \/ AppendEnum
    \/ AppendTransliterated
    \/ WriteEnums
    \/ PrintWarning

Spec == Init /\ [][Next]_vars

\* the steps of the enums command
NextEnums ==
    \/ BeginEnums
    \/ AppendEnum
    \/ AppendTransliterated
    \/ WriteEnums
    \/ PrintWarning

\* The runs of the enums command alone.  The command is one sequential
\* thread: once the with block of lines 528-529 has ended, the statement
\* after it executes.
SpecEnums == InitEnums /\ [][NextEnums]_vars /\ WF_vars(PrintWarning)

(***************************************************************************)
(* The vocabulary of the properties: what a declaration is, stated on the  *)
(* AST and not on the loop that reads it.                                  *)
(***************************************************************************)
\* the member declarations of the first type (none when the root has none)
Members == IF RootRaises(data) THEN <<>> ELSE BodyDeclarations(data)

EmptyBuckets == Buckets({}, {}, {})

\* the declaration's identifier, "" without one
Identifier(d) == IF d.name = None THEN "" ELSE d.name[1]

HasPrefix(d, prefix) ==
    \E rest \in {SubSeq(Identifier(d), Len(prefix) + 1, Len(Identifier(d)))} :
        Identifier(d) = prefix \o rest

\* the identifier without a leading "get"
CanonicalName(d) ==
    IF HasPrefix(d, "get") THEN SubSeq(Identifier(d), 4, Len(Identifier(d)))
    ELSE Identifier(d)

IsMethod(d) == d.node = Some("MethodDeclaration")

ModifiersOf(d) == IF d.modifiers = None THEN <<>> ELSE d.modifiers[1]

IsPublic(d) == \E k \in DOMAIN ModifiersOf(d) : ModifiersOf(d)[k] = PublicModifier

IsDeprecated(d) == \E k \in DOMAIN ModifiersOf(d) : ModifiersOf(d)[k] = DeprecatedMarker

HasReturnType(d) == d.returnType2 # None

ReturnsDate(d) == d.returnType2 = Some(DateType)

\* a declaration the classifier puts in some bucket
Qualifies(d) ==
    /\ ~HasPrefix(d, "set")
    /\ IsMethod(d) /\ IsPublic(d) /\ ~IsDeprecated(d) /\ HasReturnType(d)

\* the members of a list
Range(s) == {s[k] : k \in DOMAIN s}

\* a list of strings is strictly ascending
Ascending(s) == \A j, k \in DOMAIN s : j < k => StrLess(s[j], s[k])

\* the loop of a.py is at declaration d
AtDeclaration(d) ==
    /\ prog = "a.py" /\ pc = "loop"
    /\ idx <= Len(Members)
    /\ d = Members[idx]

\* the loop of a.py has run to its end, or the run is past it
LoopOver == prog = "a.py" /\ pc \in {"print", "done"}

BucketsUnchanged == UNCHANGED <<zmanim_methods, zmanim_calc_methods, other_methods>>

(***************************************************************************)
(* C1.  The printed skeleton holds exactly the names of the zero-argument  *)
(* bucket.                                                                 *)
(***************************************************************************)
\* the canonical names of the qualifying Date declarations without parameters
ZeroArgNames ==
    {CanonicalName(d) :
        d \in {m \in Range(Members) :
                 Qualifies(m) /\ ReturnsDate(m) /\ m.parameters = Some(<<>>)}}

\* the names printed between the skeleton's first and last line
SkeletonEntries ==
    [k \in 1..(Len(stdout) - 2) |-> SubSeq(stdout[k + 1], 5, Len(stdout[k + 1]) - 1)]

\* C1: when a.py has printed, the skeleton's entries are the canonical names
\* of the qualifying zero-parameter Date declarations, each once, ascending.
C1_SkeletonIsZeroArgBucket ==
    (prog = "a.py" /\ pc = "done") =>
        /\ Len(stdout) >= 2
        /\ stdout[1] = "pub enum Calculations {"
        /\ stdout[Len(stdout)] = "}"
        /\ \A k \in DOMAIN SkeletonEntries :
              stdout[k + 1] = "    " \o SkeletonEntries[k] \o ","
        /\ Range(SkeletonEntries) = ZeroArgNames
        /\ Len(SkeletonEntries) = Cardinality(ZeroArgNames)
        /\ Ascending(SkeletonEntries)

(***************************************************************************)
(* C2.  A public, non-deprecated getX() returning Date puts X in the       *)
(* zero-argument bucket, once.                                             *)
(***************************************************************************)
ZeroArgGetter(d) ==
    /\ IsMethod(d) /\ HasPrefix(d, "get")
    /\ IsPublic(d) /\ ~IsDeprecated(d)
    /\ ReturnsDate(d) /\ d.parameters = Some(<<>>)

\* C2: once the buckets are sorted, the canonical name of every such getter
\* occurs exactly once in zmanim_calc_methods.
C2_GetterOnceInZeroArgBucket ==
    LoopOver =>
        \A d \in Range(Members) :
            ZeroArgGetter(d) =>
                Cardinality({k \in DOMAIN zmanim_calc_methods :
                                zmanim_calc_methods[k] = CanonicalName(d)}) = 1

\* two different getA declarations qualify A, which is listed once
C2_Witness ==
    /\ LoopOver /\ pc = "done"
    /\ Len(Members) = 2
    /\ Members[1] # Members[2]
    /\ ZeroArgGetter(Members[1]) /\ ZeroArgGetter(Members[2])
    /\ CanonicalName(Members[1]) = "A" /\ CanonicalName(Members[2]) = "A"
    /\ zmanim_calc_methods = <<"A">>

(***************************************************************************)
(* C5.  The three buckets are pairwise disjoint.                           *)
(***************************************************************************)
\* a bucket's names, before and after it is sorted
NamesOf(bucket) == IF LoopOver THEN Range(bucket) ELSE bucket

\* C5: no name is in two of the three buckets.
C5_BucketsDisjoint ==
    prog = "a.py" =>
        /\ NamesOf(zmanim_methods) \cap NamesOf(zmanim_calc_methods) = {}
        /\ NamesOf(zmanim_methods) \cap NamesOf(other_methods) = {}
        /\ NamesOf(zmanim_calc_methods) \cap NamesOf(other_methods) = {}

(***************************************************************************)
(* C3.  A deprecated declaration adds its name to no bucket.               *)
(***************************************************************************)
\* C3: the pass of the loop over a declaration with a Deprecated marker among
\* its modifiers leaves the three buckets as they were.
C3_DeprecatedAddsNothing ==
    [][\A d \in Range(Members) :
          (AtDeclaration(d) /\ IsDeprecated(d)) => BucketsUnchanged]_vars

\* both orders of public and Deprecated were passed over, on declarations
\* that are Date getters otherwise, and the buckets are empty
C3_Witness ==
    /\ prog = "a.py" /\ pc = "done"
    /\ Len(Members) = 2
    /\ Members[1].modifiers = Some(<<PublicModifier, DeprecatedMarker>>)
    /\ Members[2].modifiers = Some(<<DeprecatedMarker, PublicModifier>>)
    /\ \A k \in 1..2 :
          /\ IsMethod(Members[k]) /\ ReturnsDate(Members[k])
          /\ Identifier(Members[k]) = "getA"
    /\ zmanim_methods = <<>> /\ zmanim_calc_methods = <<>> /\ other_methods = <<>>

(***************************************************************************)
(* C4.  Declarations named set... contribute to no bucket.                 *)
(***************************************************************************)
\* the list without the declarations whose name starts with "set"
RECURSIVE WithoutSetters(_)
WithoutSetters(ds) ==
    IF ds = <<>> THEN <<>>
    ELSE IF HasPrefix(Head(ds), "set") THEN WithoutSetters(Tail(ds))
    ELSE <<Head(ds)>> \o WithoutSetters(Tail(ds))

\* the buckets of the run, as sets
CurrentBuckets ==
    Buckets(NamesOf(zmanim_methods), NamesOf(zmanim_calc_methods),
            NamesOf(other_methods))

\* C4: when the loop has ended (normally or by raising), its outcome is that
\* of the loop over the tree without the set... declarations, and every name
\* in a bucket is the canonical name of a qualifying declaration that is not
\* named set...; the sorted lists are those of that outcome.
C4_SettersContributeNothing ==
    (prog = "a.py" /\ ~RootRaises(data)
        /\ (pc \in {"error", "print", "done"} \/ (pc = "loop" /\ idx > Len(Members)))) =>
        LET r == RunLoop(WithoutSetters(Members), 1, EmptyBuckets)
        IN /\ r.raised <=> pc = "error"
           /\ CurrentBuckets = r.buckets
           /\ LoopOver =>
                 /\ zmanim_methods = sorted(r.buckets.zmanim_methods)
                 /\ zmanim_calc_methods = sorted(r.buckets.zmanim_calc_methods)
                 /\ other_methods = sorted(r.buckets.other_methods)
           /\ \A x \in NamesOf(zmanim_methods) \cup NamesOf(zmanim_calc_methods)
                       \cup NamesOf(other_methods) :
                 \E d \in Range(Members) :
                     ~HasPrefix(d, "set") /\ Qualifies(d) /\ CanonicalName(d) = x

\* a set... declaration without node tag and a plain getter were classified:
\* the run ended without error and only the getter is in a bucket
C4_Witness ==
    /\ prog = "a.py" /\ pc = "done"
    /\ Len(Members) = 2
    /\ HasPrefix(Members[1], "set") /\ Members[1].node = None
    /\ ReturnsDate(Members[1]) /\ IsPublic(Members[1])
    /\ ZeroArgGetter(Members[2]) /\ Identifier(Members[2]) = "getB"
    /\ zmanim_calc_methods = <<"B">> /\ zmanim_methods = <<>> /\ other_methods = <<>>

(***************************************************************************)
(* C6.  Which declarations go to the 'other' bucket, and which to none.    *)
(***************************************************************************)
\* the pass adds the declaration's name to other_methods and to nothing else
GoesToOther(d) ==
    /\ other_methods' = other_methods \cup {CanonicalName(d)}
    /\ UNCHANGED <<zmanim_methods, zmanim_calc_methods>>

\* a declaration that is no method, is not public or has no return type
\* leaves the buckets alone
C6_Disqualified(d) ==
    (~IsMethod(d) \/ ~IsPublic(d) \/ ~HasReturnType(d)) => BucketsUnchanged

\* C6 as claimed: a public, non-deprecated method with a return type goes to
\* 'other' exactly when that type is not SimpleType Date, whatever its name.
C6_Original ==
    [][\A d \in Range(Members) :
          AtDeclaration(d) =>
              /\ (IsMethod(d) /\ IsPublic(d) /\ ~IsDeprecated(d) /\ HasReturnType(d)) =>
                    /\ ~ReturnsDate(d) => GoesToOther(d)
                    /\ ReturnsDate(d) => other_methods' = other_methods
              /\ C6_Disqualified(d)]_vars

\* C6 as amended: the same, of a declaration whose name does not start with
\* "set".
C6_OtherBucket ==
    [][\A d \in Range(Members) :
          AtDeclaration(d) =>
              /\ (~HasPrefix(d, "set") /\ IsMethod(d) /\ IsPublic(d)
                    /\ ~IsDeprecated(d) /\ HasReturnType(d)) =>
                    /\ ~ReturnsDate(d) => GoesToOther(d)
                    /\ ReturnsDate(d) => other_methods' = other_methods
              /\ C6_Disqualified(d)]_vars

\* a QualifiedType named Date went to 'other', a SimpleType Date did not
C6_Witness ==
    /\ prog = "a.py" /\ pc = "loop" /\ idx = 3
    /\ Qualifies(Members[1]) /\ Identifier(Members[1]) = "getA"
    /\ Members[1].returnType2 = Some(TypeNode("QualifiedType", "Date"))
    /\ Qualifies(Members[2]) /\ Identifier(Members[2]) = "getB"
    /\ ReturnsDate(Members[2])
    /\ other_methods = {"A"}
    /\ zmanim_methods \cup zmanim_calc_methods = {"B"}

(***************************************************************************)
(* C7.  A Date declaration without 'parameters' counts as taking arguments.*)
(***************************************************************************)
\* C7: of a qualifying declaration returning Date, the pass adds the name to
\* zmanim_calc_methods alone when 'parameters' is present and empty, and to
\* zmanim_methods alone otherwise, the absent 'parameters' included.
C7_AbsentParametersTakeArguments ==
    [][\A d \in Range(Members) :
          (AtDeclaration(d) /\ Qualifies(d) /\ ReturnsDate(d)) =>
              IF d.parameters = Some(<<>>)
              THEN /\ zmanim_calc_methods' = zmanim_calc_methods \cup {CanonicalName(d)}
                   /\ UNCHANGED <<zmanim_methods, other_methods>>
              ELSE /\ zmanim_methods' = zmanim_methods \cup {CanonicalName(d)}
                   /\ UNCHANGED <<zmanim_calc_methods, other_methods>>]_vars

\* a Date getter without 'parameters' was classified as taking arguments
C7_Witness ==
    /\ prog = "a.py" /\ pc = "loop" /\ idx = 2
    /\ Qualifies(Members[1]) /\ ReturnsDate(Members[1])
    /\ Members[1].parameters = None
    /\ Identifier(Members[1]) = "getA"
    /\ zmanim_methods = {"A"} /\ zmanim_calc_methods = {} /\ other_methods = {}

(***************************************************************************)
(* C8.  What makes the classifier fail.                                    *)
(***************************************************************************)
\* the run can no longer print: it failed, or the loop is at a declaration
RunCannotPrint ==
    /\ pc \in {"load", "loop", "error"}
    /\ pc = "loop" => idx <= Len(Members)
    /\ stdout = <<>>

\* the run fails only at the root, or at a declaration without node tag
FailsOnlyOnTag ==
    pc = "error" =>
        \/ RootRaises(data)
        \/ idx \in DOMAIN Members /\ Members[idx].node = None

\* C8 as claimed: a root without type list, or any member declaration
\* without node tag, keeps the run from printing; nothing else fails it.
C8_Original ==
    prog = "a.py" =>
        /\ (RootRaises(data) \/ \E d \in Range(Members) : d.node = None)
              => RunCannotPrint
        /\ FailsOnlyOnTag

\* C8 as amended: the same, of the member declarations whose name does not
\* start with "set"; one that does is passed over without error.
C8_FailsOnMissingTag ==
    prog = "a.py" =>
        /\ (RootRaises(data)
              \/ \E d \in Range(Members) : d.node = None /\ ~HasPrefix(d, "set"))
              => RunCannotPrint
        /\ FailsOnlyOnTag
        /\ pc = "error" /\ ~RootRaises(data) => ~HasPrefix(Members[idx], "set")

\* the run failed at the second declaration, a getter without node tag,
\* after passing over a set... declaration that has no node tag either
C8_Witness ==
    /\ prog = "a.py" /\ pc = "error" /\ idx = 2
    /\ Len(Members) = 2
    /\ Members[1].node = None /\ HasPrefix(Members[1], "set")
    /\ Members[2].node = None /\ Identifier(Members[2]) = "getA"
    /\ stdout = <<>>

(***************************************************************************)
(* C9.  The constants command renders one static declaration per record.   *)
(***************************************************************************)
\* the declaration the claim gives a record
StaticDeclaration(c) ==
    CASE c.type = "float" ->
            "pub static _" \o c.name \o ": f64 = " \o c.value \o ";\n"
      [] c.type = "int" ->
            "pub static _" \o c.name \o ": i64 = " \o c.value \o ";\n"
      [] c.type = "datetime" ->
            "pub static _" \o c.name
            \o ": DateTime<Utc> = DateTime::from_timestamp_millis("
            \o c.value \o ").unwrap();\n"

RECURSIVE StaticDeclarations(_, _)
\* the declarations of the table's first n records, in table order
StaticDeclarations(t, n) ==
    IF n = 0 THEN "" ELSE StaticDeclarations(t, n - 1) \o StaticDeclaration(t[n])

\* C9: while the command renders, the buffer is the header followed by the
\* declarations of the records passed so far, in table order; the file it
\* writes holds the header and the declarations of all records.
C9_OneDeclarationPerRecord ==
    prog = "constants" =>
        /\ pc = "render" => buffer = Header \o StaticDeclarations(table, idx - 1)
        /\ pc = "done" =>
              output_file = Some(Header \o StaticDeclarations(table, Len(table)))

\* a table of a real and an instant record was written
C9_Witness ==
    /\ prog = "constants" /\ pc = "done"
    /\ Len(table) = 2
    /\ table[1] = Constant("EARTH_RADIUS", "6356.9", "float")
    /\ table[2] = Constant("HOUR_MILLIS", "-1461369600000", "datetime")
    /\ output_file = Some(buffer)
    /\ buffer # Header

(***************************************************************************)
(* C10.  An unknown type aborts the constants command before the file is   *)
(* touched.                                                                *)
(***************************************************************************)
HasUnknownType(t) == \E k \in DOMAIN t : t[k].type \notin {"float", "int", "datetime"}

\* C10: in a run over a table with a record of unknown type no step changes
\* the output file, the loop never gets past the table and the run never
\* ends normally.
C10_UnknownTypeWritesNothing ==
    [][(prog = "constants" /\ HasUnknownType(table)) =>
          /\ output_file' = output_file
          /\ pc' # "done"
          /\ pc' = "render" => idx' <= Len(table)]_vars

\* the run failed at the second record, of unknown type, after rendering the
\* first; the file of the earlier run is as it was
C10_Witness ==
    /\ prog = "constants" /\ pc = "error"
    /\ Len(table) = 2 /\ idx = 2
    /\ table[1].type = "int" /\ table[2].type = "str"
    /\ buffer = Header \o StaticDeclaration(table[1])
    /\ output_file = Some("old")

(***************************************************************************)
(* Reading the emitted text: the lines of a text, the variants an enum     *)
(* declaration lists, the number a numeral denotes.                        *)
(***************************************************************************)
\* the first position from `from` on where the one-character string c
\* stands, Len(s) + 1 if there is none
Find(s, c, from) ==
    IF \E k \in from..Len(s) : SubSeq(s, k, k) = c
    THEN CHOOSE k \in from..Len(s) :
            /\ SubSeq(s, k, k) = c
            /\ \A j \in from..(k - 1) : SubSeq(s, j, j) # c
    ELSE Len(s) + 1

\* the line that starts at position from, without its line feed
LineAt(s, from) == SubSeq(s, from, Find(s, "\n", from) - 1)

\* the positions from `from` on where a line starts
LineStarts(s, from) ==
    IF from < 1 \/ from > Len(s) THEN {}
    ELSE {from} \cup {k + 1 : k \in {j \in from..(Len(s) - 1) : SubSeq(s, j, j) = "\n"}}

\* the least of a set of positions
First(positions) == CHOOSE x \in positions : \A y \in positions : x <= y

\* the lines from position `from` on, in order
LinesFrom(s, from) ==
    LET starts == LineStarts(s, from)
    IN [n \in 1..Cardinality(starts) |->
            LineAt(s, CHOOSE x \in starts : Cardinality({y \in starts : y < x}) = n - 1)]

\* the lines from position `from` on, up to the first line equal to `last`,
\* that line left out
LinesUpTo(s, from, last) ==
    LET lines == LinesFrom(s, from)
        stops == {n \in DOMAIN lines : lines[n] = last}
    IN IF stops = {} THEN lines ELSE SubSeq(lines, 1, First(stops) - 1)

Digits == "0123456789"

\* a decimal numeral, with an optional sign
IsNumeral(s) ==
    LET digits == IF StartsWith(s, "-") THEN SubSeq(s, 2, Len(s)) ELSE s
    IN /\ digits # ""
       /\ \A k \in 1..Len(digits) : SubSeq(digits, k, k) \in Chars(Digits)

RECURSIVE NumberOf(_)
\* the integer a numeral denotes
NumberOf(s) ==
    IF StartsWith(s, "-") THEN 0 - NumberOf(SubSeq(s, 2, Len(s)))
    ELSE IF s = "" THEN 0
    ELSE 10 * NumberOf(SubSeq(s, 1, Len(s) - 1))
         + IndexIn(SubSeq(s, Len(s), Len(s)), Digits) - 1

\* a line of the form "    Identifier = numeral,"
IsVariantLine(line) ==
    LET eq == Find(line, " ", 5)
    IN /\ StartsWith(line, "    ")
       /\ eq > 5
       /\ SubSeq(line, eq, eq + 2) = " = "
       /\ SubSeq(line, Len(line), Len(line)) = ","
       /\ IsNumeral(SubSeq(line, eq + 3, Len(line) - 1))

\* the identifier and the discriminant a variant line declares
VariantOf(line) ==
    LET eq == Find(line, " ", 5)
    IN [identifier |-> SubSeq(line, 5, eq - 1),
        discriminant |-> NumberOf(SubSeq(line, eq + 3, Len(line) - 1))]

\* the lines of an emitted enum before its variants: the two attribute
\* lines and the line that opens the declaration
IsEnumOpening(text, enum_name) ==
    StartsWith(text, DeriveLines \o "pub enum " \o enum_name \o " {\n")

\* the lines between the opening line of the declaration a text starts with
\* and the line that closes it
DeclarationLines(text, enum_name) ==
    LinesUpTo(text, Len(DeriveLines \o "pub enum " \o enum_name \o " {\n") + 1, "}")

\* the text a step of the enums command adds to the buffer
Added == SubSeq(buffer', Len(buffer) + 1, Len(buffer'))

\* the step renders the plain enum ENUMS[idx]
RendersPlain ==
    /\ prog = "enums" /\ pc = "plain"
    /\ idx <= Len(table.ENUMS)

\* the step renders the transliterated table of call idx
RendersTransliterated ==
    /\ prog = "enums" /\ pc = "transliterated"
    /\ idx <= Len(TransliteratedCalls)

\* the table and the name of the transliterated call the command is at
CallTable == table[TransliteratedCalls[idx].enums]

CallName == TransliteratedCalls[idx].name

(***************************************************************************)
(* C11.  Each emitted declaration lists its table's members as variants,   *)
(* in table order.                                                         *)
(***************************************************************************)
\* the declaration that `text` starts with lists, line by line, one variant
\* per member of `members`, in order, its identifier the cased Label of the
\* member and its discriminant the member's value
ListsMembers(text, enum_name, members, Label(_)) ==
    LET lines == DeclarationLines(text, enum_name)
    IN /\ IsEnumOpening(text, enum_name)
       /\ Len(lines) = Len(members)
       /\ \A k \in 1..Len(members) :
            /\ IsVariantLine(lines[k])
            /\ VariantOf(lines[k]).identifier = pascalcase(Label(members[k]))
            /\ VariantOf(lines[k]).discriminant = members[k].value

\* C11: every step that renders an enum, plain or transliterated, adds a
\* declaration with exactly one variant per member, in table order; the
\* variant's identifier is the identifier-cased name (plain) or
\* transliterated label (transliterated) and its discriminant is the
\* member's value.
C11_VariantPerMember ==
    [][/\ RendersPlain =>
            LET name_of(member) == member.name
            IN ListsMembers(Added, "_" \o pascalcase(table.ENUMS[idx].name),
                            table.ENUMS[idx].members, name_of)
       /\ RendersTransliterated =>
            LET label_of(member) == member.transliterated_name
            IN ListsMembers(Added, CallName, CallTable, label_of)]_vars

\* the plain enum of the short tables and the Parsha table of two members,
\* Lech Lecha = 2 and Bo = 14, have been rendered
C11_Witness ==
    /\ prog = "enums" /\ pc = "transliterated" /\ idx = 2
    /\ Len(table.ENUMS) = 1 /\ Len(table.ENUMS[1].members) > 1
    /\ table.PARSHAS = <<TransliteratedEnumMember("לך לך", "Lech Lecha", 2),
                         TransliteratedEnumMember("בא", "Bo", 14)>>
    /\ IsEnumOpening(SubSeq(buffer, Len(Header) + 1, Len(buffer)), "_SolarEvent")

(***************************************************************************)
(* C12.  The enums emitted from the shipped tables convert to and from     *)
(* their numeric values without loss, and reject every other integer.      *)
(***************************************************************************)
\* the variants the declaration at the start of `text` declares
DeclaredVariants(text, enum_name) ==
    {VariantOf(line) : line \in Range(DeclarationLines(text, enum_name))}

\* the conversion the emitted enum derives from an integer: the variants
\* whose discriminant it is; none of them: the construction fails
TryFromPrimitive(variants, n) == {v \in variants : v.discriminant = n}

\* the conversion the emitted enum derives to an integer
IntoPrimitive(v) == v.discriminant

\* the integers of a table, and the integers next to them
ValuesOf(members) == {members[k].value : k \in DOMAIN members}

Probes(members) ==
    {-1, 0} \cup UNION {{n - 1, n, n + 1} : n \in ValuesOf(members)}

\* the enum that `text` starts with is a declaration of plain variants, one
\* identifier each, in which each value of `members` constructs exactly one
\* variant, that variant converts back to the value, and every other
\* integer constructs none
RoundTrips(text, enum_name, members) ==
    LET lines == DeclarationLines(text, enum_name)
        variants == DeclaredVariants(text, enum_name)
    IN /\ IsEnumOpening(text, enum_name)
       /\ \A k \in DOMAIN lines : IsVariantLine(lines[k])
       /\ \A j, k \in DOMAIN lines :
            VariantOf(lines[j]).identifier = VariantOf(lines[k]).identifier => j = k
       /\ \A n \in ValuesOf(members) :
            /\ Cardinality(TryFromPrimitive(variants, n)) = 1
            /\ \A v \in TryFromPrimitive(variants, n) : IntoPrimitive(v) = n
       /\ \A n \in Probes(members) \ ValuesOf(members) :
            TryFromPrimitive(variants, n) = {}

\* C12: in the run over the shipped tables, every enum rendered converts
\* each declared value to one variant and back to the same value, and
\* constructs no variant from an integer that no member has.
C12_RoundTrip ==
    [][table = ShippedTables =>
          /\ RendersPlain =>
                RoundTrips(Added, "_" \o pascalcase(table.ENUMS[idx].name),
                           table.ENUMS[idx].members)
          /\ RendersTransliterated => RoundTrips(Added, CallName, CallTable)]_vars

\* the run over the shipped tables has rendered all nine enums and written
\* them
C12_Witness ==
    /\ prog = "enums" /\ pc = "done"
    /\ table = ShippedTables
    /\ idx = Len(TransliteratedCalls) + 1
    /\ output_file = Some(buffer)
    /\ Len(buffer) > Len(Header)

(***************************************************************************)
(* C13.  The two lookup functions of a transliterated enum have one arm    *)
(* per declared variant, and no other arm.                                 *)
(***************************************************************************)
\* the text of the enum declaration that `text` starts with
DeclarationText(text, enum_name) ==
    DeriveLines \o "pub enum " \o enum_name \o " {\n"
    \o Concat(LAMBDA line : line \o "\n", DeclarationLines(text, enum_name))
    \o "}\n"

\* the line a lookup function starts with; its first arm follows on the
\* same line
FunctionOpening(function) == "pub fn " \o function \o "(&self) -> &str { match self {"

\* the position after `opening` in the first line from position `from` on
\* that starts with it, 0 if there is no such line
After(text, opening, from) ==
    LET starts == {x \in LineStarts(text, from) : StartsWith(LineAt(text, x), opening)}
    IN IF starts = {} THEN 0 ELSE First(starts) + Len(opening)

\* the arms of a lookup function of the enum that `text` starts with, line
\* by line, up to the line that closes the match and the function
ArmLines(text, enum_name, function) ==
    LET opened == After(text, FunctionOpening(function),
                        Len(DeclarationText(text, enum_name)) + 1)
    IN LinesUpTo(text, opened, "}}")

\* a line of the form `    Name::Identifier => "label",`
IsArmLine(line, enum_name) ==
    LET pattern == "    " \o enum_name \o "::"
        arrow == Find(line, " ", Len(pattern) + 1)
    IN /\ StartsWith(line, pattern)
       /\ arrow > Len(pattern) + 1
       /\ SubSeq(line, arrow, arrow + 4) = " => \""
       /\ Len(line) >= arrow + 6
       /\ SubSeq(line, Len(line) - 1, Len(line)) = "\","

\* the variant an arm matches and the string it returns
ArmOf(line, enum_name) ==
    LET pattern == "    " \o enum_name \o "::"
        arrow == Find(line, " ", Len(pattern) + 1)
    IN [variant |-> SubSeq(line, Len(pattern) + 1, arrow - 1),
        returns |-> SubSeq(line, arrow + 5, Len(line) - 2)]

\* in the function, every line of the match is an arm for a variant (none
\* is a fallback), every variant the declaration lists has exactly one arm,
\* and the arm of each member's variant returns Label of that member
TotalLookup(text, enum_name, function, members, Label(_)) ==
    LET arms == ArmLines(text, enum_name, function)
        variants == DeclaredVariants(text, enum_name)
    IN /\ After(text, FunctionOpening(function), 1) # 0
       /\ \A k \in DOMAIN arms : IsArmLine(arms[k], enum_name)
       /\ \A v \in variants :
            Cardinality({k \in DOMAIN arms :
                            ArmOf(arms[k], enum_name).variant = v.identifier}) = 1
       /\ \A k \in DOMAIN arms :
            ArmOf(arms[k], enum_name).variant \in {v.identifier : v \in variants}
       /\ \A m \in DOMAIN members :
            \A k \in DOMAIN arms :
                ArmOf(arms[k], enum_name).variant
                        = pascalcase(members[m].transliterated_name)
                    => ArmOf(arms[k], enum_name).returns = Label(members[m])

\* C13: every step that renders a transliterated table adds an en_string
\* and a he_string with exactly one arm per declared variant and no
\* fallback arm; the en_string arm returns the member's transliterated
\* label and the he_string arm the same member's native-script label.
C13_LookupsTotal ==
    [][RendersTransliterated =>
          /\ TotalLookup(Added, CallName, "en_string", CallTable,
                         LAMBDA member : member.transliterated_name)
          /\ TotalLookup(Added, CallName, "he_string", CallTable,
                         LAMBDA member : member.name)]_vars

(***************************************************************************)
(* C14.  The leap-year warning follows the complete write, and only it.    *)
(***************************************************************************)
\* the warning is on the standard output
Warned == \E k \in DOMAIN stdout : stdout[k] = LeapYearWarning

\* the file holds the whole text: every enum has been rendered into the
\* buffer and the buffer is what the file holds
WrittenInFull ==
    /\ idx = Len(TransliteratedCalls) + 1
    /\ Len(buffer) > Len(Header)
    /\ output_file = Some(buffer)

\* C14: in a run of the enums command (a) while the warning is on the output
\* the file holds the whole text, (b) the step that prints the warning starts
\* from the written file and leaves it alone, (c) a run that failed has
\* printed no warning, and (d) once the file is written the warning follows.
\* The rendering of lines 509-527 raises on no table of the model, so the
\* failing runs are those in which open or write fails.
C14_WarningAfterWrite ==
    /\ [](Warned => WrittenInFull)
    /\ [][stdout' # stdout => (WrittenInFull /\ ~Warned /\ output_file' = output_file)]_vars
    /\ [](pc = "error" => ~Warned)
    /\ (pc = "written" ~> Warned)

\* a run wrote the file over an older one and then printed the warning
C14_Witness ==
    /\ prog = "enums" /\ pc = "done"
    /\ stdout = <<LeapYearWarning>>
    /\ output_file = Some(buffer)
    /\ output_file # Some("old")
    /\ Len(table.HEBREW_MONTHS) = 2

(***************************************************************************)
(* C15.  The output is the header, the plain enums in table order, and the *)
(* seven transliterated enums in invocation order.                         *)
(***************************************************************************)
\* the names of the transliterated enums, in the order the claim gives
InvocationOrder ==
    <<"Parsha", "JewishHoliday", "DayOfWeek", "JewishMonth", "YearLengthType",
      "BavliTractate", "YerushalmiTractate">>

\* the table each transliterated enum is rendered from
TableOf(enum_name) ==
    CASE enum_name = "Parsha" -> table.PARSHAS
      [] enum_name = "JewishHoliday" -> table.JEWISH_HOLIDAYS
      [] enum_name = "DayOfWeek" -> table.DAY_OF_WEEKS
      [] enum_name = "JewishMonth" -> table.HEBREW_MONTHS
      [] enum_name = "YearLengthType" -> table.YEAR_LENGTH_TYPES
      [] enum_name = "BavliTractate" -> table.BAVLI_TRACTATES
      [] enum_name = "YerushalmiTractate" -> table.YERUSHALMI_TRACTATES

\* the text of one transliterated enum: a text of its name and its own table
\* only
TextOf(enum_name) == transliterated_enums_to_rust(enum_name, TableOf(enum_name))

\* the text of a transliterated enum is its declaration, of its table's
\* members in table order, and right after it the implementation of its two
\* lookup functions, which ends the text
DeclarationThenLookups(text, enum_name, members) ==
    LET declaration == DeclarationText(text, enum_name)
        rest == SubSeq(text, Len(declaration) + 1, Len(text))
        closing == "}}\n}\n"
    IN /\ ListsMembers(text, enum_name, members,
                       LAMBDA member : member.transliterated_name)
       /\ StartsWith(text, declaration)
       /\ StartsWith(rest, "impl " \o enum_name \o " {\n" \o FunctionOpening("en_string"))
       /\ Len(ArmLines(text, enum_name, "en_string")) = Len(members)
       /\ Len(ArmLines(text, enum_name, "he_string")) = Len(members)
       /\ Len(rest) >= Len(closing)
       /\ SubSeq(rest, Len(rest) - Len(closing) + 1, Len(rest)) = closing

\* the file of a run of enums that wrote it
EnumsOutput == output_file[1]

\* C15: the file a run of enums wrote is the header, then the plain enums in
\* the order of ENUMS, then the transliterated enums in invocation order;
\* each transliterated enum's text is made from its own name and table and
\* is its declaration followed at once by its lookup implementation.
C15_FixedOrder ==
    (prog = "enums" /\ pc \in {"written", "done"}) =>
        /\ output_file # None
        /\ EnumsOutput = Header
                         \o Concat(RenderEnum, table.ENUMS)
                         \o Concat(TextOf, InvocationOrder)
        /\ \A k \in DOMAIN InvocationOrder :
              DeclarationThenLookups(TextOf(InvocationOrder[k]), InvocationOrder[k],
                                     TableOf(InvocationOrder[k]))

\* a run wrote two plain enums given in an order that is not the sorted one,
\* FORMULA after SOLAR_EVENT, and the seven transliterated enums
C15_Witness ==
    /\ prog = "enums" /\ pc = "written"
    /\ Len(table.ENUMS) = 2
    /\ table.ENUMS[1].name = "SOLAR_EVENT" /\ table.ENUMS[2].name = "FORMULA"
    /\ Len(table.ENUMS[1].members) = 2
    /\ output_file = Some(buffer)
    /\ StartsWith(buffer, Header \o DeriveLines \o "pub enum _SolarEvent {\n")

(***************************************************************************)
(* C16.  The classifier's result is a function of the set of declarations. *)
(***************************************************************************)
\* the list ds with its members in the order p gives
Permuted(ds, p) == [k \in DOMAIN ds |-> ds[p[k]]]

\* the permutations of the positions of ds
Orders(ds) ==
    {p \in [DOMAIN ds -> DOMAIN ds] : \A j, k \in DOMAIN ds : p[j] = p[k] => j = k}

\* the list ds with a second copy of ds[k] put at position at
Duplicated(ds, k, at) ==
    SubSeq(ds, 1, at - 1) \o <<ds[k]>> \o SubSeq(ds, at, Len(ds))

\* the member lists the claim compares with ds: its permutations, and ds
\* with one member in it twice
Rearranged(ds) ==
    {Permuted(ds, p) : p \in Orders(ds)}
    \cup {Duplicated(ds, k, at) : k \in DOMAIN ds, at \in 1..(Len(ds) + 1)}

\* lines 53-56: the lines printed for a sorted list of names
SkeletonOf(names) ==
    <<"pub enum Calculations {">>
    \o [k \in 1..Len(names) |-> "    " \o names[k] \o ","]
    \o <<"}">>

\* the run over the member list ds: whether it raises, and if not the three
\* sorted lists and the lines printed
OutcomeOf(ds) ==
    LET r == RunLoop(ds, 1, EmptyBuckets)
    IN IF r.raised
       THEN [raised |-> TRUE, zmanim_methods |-> <<>>, zmanim_calc_methods |-> <<>>,
             other_methods |-> <<>>, stdout |-> <<>>]
       ELSE [raised |-> FALSE,
             zmanim_methods |-> sorted(r.buckets.zmanim_methods),
             zmanim_calc_methods |-> sorted(r.buckets.zmanim_calc_methods),
             other_methods |-> sorted(r.buckets.other_methods),
             stdout |-> SkeletonOf(sorted(r.buckets.zmanim_methods))]

\* C16: when a run of a.py has ended, the run over any permutation of its
\* member declarations, and over the members with one of them duplicated,
\* ends the same way: it raises if this run raised, and else it has the same
\* three sorted lists and prints the same skeleton.
C16_OrderAndMultiplicity ==
    (prog = "a.py" /\ pc \in {"done", "error"} /\ ~RootRaises(data)) =>
        \A ds \in Rearranged(Members) :
            IF pc = "error"
            THEN OutcomeOf(ds).raised /\ stdout = <<>>
            ELSE OutcomeOf(ds) = [raised |-> FALSE,
                                  zmanim_methods |-> zmanim_methods,
                                  zmanim_calc_methods |-> zmanim_calc_methods,
                                  other_methods |-> other_methods,
                                  stdout |-> stdout]

\* a run over two different declarations of the same name, one with
\* parameters and one without, has printed the skeleton
C16_Witness ==
    /\ prog = "a.py" /\ pc = "done"
    /\ Len(Members) = 2 /\ Members[1] # Members[2]
    /\ zmanim_methods = <<"A">> /\ zmanim_calc_methods = <<"A">>
    /\ stdout = SkeletonOf(<<"A">>)
====
